---- MODULE Spec2Model ----
(***************************************************************************)
(* Inverted index of poluandrey/dig_data_team_course: build, query, and    *)
(* the JSON / struct persistence of the library module                     *)
(* (task_Polumestny_Andrey_inverted_index_lib.py) and of the CLI module    *)
(* (task_Polumestny_Andrey_inverted_index_cli.py).                         *)
(*                                                                         *)
(* A text, a word and a JSON document are sequences of one-character       *)
(* strings; a file is a sequence of bytes (0..255).  A Python dict is a    *)
(* sequence of entries in insertion order with pairwise distinct keys.     *)
(***************************************************************************)
EXTENDS Integers, Sequences, FiniteSets, TLC

VARIABLES documents, index, file, loaded, words, result, pc, dumpedBy,
          loadedBy, outcome

vars == <<documents, index, file, loaded, words, result, pc, dumpedBy,
          loadedBy, outcome>>

----------------------------------------------------------------------------
(* Bounds of the model *)

\* longest document text, in characters
MaxTextLen == 3
\* longest query, in terms
MaxQuery == 3
\* longest pre-existing byte stream found at the index path
MaxStream == 5

\* document identifiers (those of the repository's test dataset)
DocIds == {12, 25}
\* characters of a document text: two letters differing in case, a separator
Alphabet == {"a", "A", " "}
\* terms a query is made of
QueryWords == {<<"a">>, <<"A">>}
\* bytes of a pre-existing stream
StreamBytes == {0, 1, 2}

----------------------------------------------------------------------------
(* Sequences *)

Range(s) == {s[i] : i \in 1..Len(s)}

NoDuplicates(s) == \A i, j \in 1..Len(s) : i # j => s[i] # s[j]

StrictlyAscending(s) == \A i \in 1..(Len(s) - 1) : s[i] < s[i + 1]

SeqsUpTo(S, n) == UNION {[1..k -> S] : k \in 0..n}

RECURSIVE Concat(_)
Concat(ss) == IF ss = <<>> THEN <<>> ELSE Head(ss) \o Concat(Tail(ss))

----------------------------------------------------------------------------
(* Characters *)

Digits == <<"0", "1", "2", "3", "4", "5", "6", "7", "8", "9">>

\* \w of the regular expression: letters, digits and the underscore
IsWordChar(c) == c \in {"a", "A", "_"} \cup Range(Digits)

\* str.lower() on one character
LowerChar(c) == IF c = "A" THEN "a" ELSE c

Lower(w) == [i \in 1..Len(w) |-> LowerChar(w[i])]

----------------------------------------------------------------------------
(* re.split(r"\W+", value) *)

RECURSIVE SkipNonWord(_, _)
SkipNonWord(s, i) ==
    IF i <= Len(s) /\ ~IsWordChar(s[i]) THEN SkipNonWord(s, i + 1) ELSE i

RECURSIVE SplitFrom(_, _, _, _)
SplitFrom(s, i, cur, acc) ==
    IF i > Len(s) THEN Append(acc, cur)
    ELSE IF IsWordChar(s[i]) THEN SplitFrom(s, i + 1, Append(cur, s[i]), acc)
    ELSE SplitFrom(s, SkipNonWord(s, i), <<>>, Append(acc, cur))

\* the pieces between maximal runs of non-word characters; a text that
\* starts or ends with such a run, or is empty, yields an empty piece
ReSplit(value) == SplitFrom(value, 1, <<>>, <<>>)

----------------------------------------------------------------------------
(* dict *)

Keys(d) == {d[i].key : i \in 1..Len(d)}

HasKey(d, k) == k \in Keys(d)

\* d[k], for a key of d
Lookup(d, k) == d[CHOOSE i \in 1..Len(d) : d[i].key = k].val

\* d[k] = v: a new key goes last, an old key keeps its place
DictSet(d, k, v) ==
    IF HasKey(d, k)
    THEN [i \in 1..Len(d) |-> IF d[i].key = k THEN [key |-> k, val |-> v] ELSE d[i]]
    ELSE Append(d, [key |-> k, val |-> v])

\* dict.__eq__: the same keys and equal values, whatever the insertion order
DictEq(a, b) ==
    /\ Keys(a) = Keys(b)
    /\ \A k \in Keys(a) : Lookup(a, k) = Lookup(b, k)

----------------------------------------------------------------------------
(* build_inverted_index *)

\* the body of the inner loop, with the duplicate check left out
AddWordAlways(inv_index, word, key) ==
    IF ~HasKey(inv_index, word)
    THEN DictSet(inv_index, word, <<key>>)
    ELSE DictSet(inv_index, word, Append(Lookup(inv_index, word), key))

\* the body of the inner loop
AddWord(inv_index, word, key) ==
    IF ~HasKey(inv_index, word)
    THEN DictSet(inv_index, word, <<key>>)
    ELSE IF key \notin Range(Lookup(inv_index, word))
    THEN DictSet(inv_index, word, Append(Lookup(inv_index, word), key))
    ELSE inv_index

RECURSIVE AddWords(_, _, _)
AddWords(inv_index, ws, key) ==
    IF ws = <<>> THEN inv_index
    ELSE AddWords(AddWord(inv_index, Head(ws), key), Tail(ws), key)

RECURSIVE BuildFrom(_, _)
BuildFrom(inv_index, docs) ==
    IF docs = <<>> THEN inv_index
    ELSE BuildFrom(AddWords(inv_index, ReSplit(Head(docs).val), Head(docs).key),
                   Tail(docs))

build_inverted_index(docs) == BuildFrom(<<>>, docs)

----------------------------------------------------------------------------
(* InvertedIndex.query *)

\* the smallest hash table of a set (the sets of a query over DocIds never
\* hold enough keys to grow beyond it)
PySetMinSize == 8

EmptySet == [i \in 0..(PySetMinSize - 1) |-> 0]

\* the slot of a key: it starts at hash(key) = key masked to the table, and on
\* a collision goes on to i * 5 + 1 + perturb
RECURSIVE Probe(_, _, _, _)
Probe(table, key, i, perturb) ==
    IF table[i] = 0 \/ table[i] = key THEN i
    ELSE Probe(table, key, (i * 5 + 1 + (perturb \div 32)) % PySetMinSize,
               perturb \div 32)

SetAdd(table, key) ==
    [table EXCEPT ![Probe(table, key, key % PySetMinSize, key)] = key]

\* list(a_set): the keys in the order of their slots
RECURSIVE SetToList(_, _)
SetToList(table, i) ==
    IF i >= PySetMinSize THEN <<>>
    ELSE IF table[i] = 0 THEN SetToList(table, i + 1)
    ELSE <<table[i]>> \o SetToList(table, i + 1)

RECURSIVE IntersectInto(_, _, _)
IntersectInto(table, relevant, tmp) ==
    IF tmp = <<>> THEN table
    ELSE IF Head(tmp) \in Range(relevant)
    THEN IntersectInto(SetAdd(table, Head(tmp)), relevant, Tail(tmp))
    ELSE IntersectInto(table, relevant, Tail(tmp))

\* list(set(relevant_documents).intersection(tmp_relevant_documents))
Intersection(relevant, tmp) == SetToList(IntersectInto(EmptySet, relevant, tmp), 0)

RECURSIVE QueryFrom(_, _, _)
QueryFrom(idx, ws, relevant_documents) ==
    IF ws = <<>> THEN relevant_documents
    ELSE IF ~HasKey(idx, Head(ws)) \/ Lookup(idx, Head(ws)) = <<>> THEN <<>>
    ELSE LET tmp_relevant_documents == Lookup(idx, Head(ws)) IN
         IF relevant_documents = <<>>
         THEN QueryFrom(idx, Tail(ws), tmp_relevant_documents)
         ELSE QueryFrom(idx, Tail(ws),
                        Intersection(relevant_documents, tmp_relevant_documents))

\* query with a term that has no documents skipped instead of ending the query
RECURSIVE QuerySkipFrom(_, _, _)
QuerySkipFrom(idx, ws, relevant_documents) ==
    IF ws = <<>> THEN relevant_documents
    ELSE IF ~HasKey(idx, Head(ws)) \/ Lookup(idx, Head(ws)) = <<>>
    THEN QuerySkipFrom(idx, Tail(ws), relevant_documents)
    ELSE LET tmp_relevant_documents == Lookup(idx, Head(ws)) IN
         IF relevant_documents = <<>>
         THEN QuerySkipFrom(idx, Tail(ws), tmp_relevant_documents)
         ELSE QuerySkipFrom(idx, Tail(ws),
                            Intersection(relevant_documents, tmp_relevant_documents))

QuerySkipAbsent(idx, ws) == QuerySkipFrom(idx, ws, <<>>)

\* query with the documents of each further term appended to the result
RECURSIVE QueryConcatFrom(_, _, _)
QueryConcatFrom(idx, ws, relevant_documents) ==
    IF ws = <<>> THEN relevant_documents
    ELSE IF ~HasKey(idx, Head(ws)) \/ Lookup(idx, Head(ws)) = <<>> THEN <<>>
    ELSE QueryConcatFrom(idx, Tail(ws), relevant_documents \o Lookup(idx, Head(ws)))

QueryConcat(idx, ws) == QueryConcatFrom(idx, ws, <<>>)

Query(idx, ws) == QueryFrom(idx, ws, <<>>)

----------------------------------------------------------------------------
(* json.dumps *)

RECURSIVE IntToStr(_)
IntToStr(n) ==
    IF n < 10 THEN <<Digits[n + 1]>>
    ELSE IntToStr(n \div 10) \o <<Digits[(n % 10) + 1]>>

\* the items joined by ", "
RECURSIVE JoinItems(_)
JoinItems(items) ==
    IF items = <<>> THEN <<>>
    ELSE IF Len(items) = 1 THEN items[1]
    ELSE items[1] \o <<",", " ">> \o JoinItems(Tail(items))

JsonString(w) == <<"\"">> \o w \o <<"\"">>

\* the list written as the number of its items (what the struct header holds)
JsonCount(ids) == <<"[">> \o IntToStr(Len(ids)) \o <<"]">>

JsonList(ids) == <<"[">> \o JoinItems([i \in 1..Len(ids) |-> IntToStr(ids[i])]) \o <<"]">>

\* an object of members `"key": text`, in the order of the dict
JsonObject(members) ==
    <<"{">>
    \o JoinItems([i \in 1..Len(members) |->
                    JsonString(members[i].key) \o <<":", " ">> \o members[i].val])
    \o <<"}">>

\* json.dump(self.index, f_out)
JsonDumps(idx) ==
    JsonObject([i \in 1..Len(idx) |-> [key |-> idx[i].key, val |-> JsonList(idx[i].val)]])

----------------------------------------------------------------------------
(* json.load *)

Fail == [ok |-> FALSE, val |-> <<>>, pos |-> 0]

Done(v, p) == [ok |-> TRUE, val |-> v, pos |-> p]

At(s, i, c) == i <= Len(s) /\ s[i] = c

IsDigit(s, i) == i <= Len(s) /\ s[i] \in Range(Digits)

DigitValue(c) == (CHOOSE k \in 1..10 : Digits[k] = c) - 1

RECURSIVE SkipWs(_, _)
SkipWs(s, i) == IF At(s, i, " ") THEN SkipWs(s, i + 1) ELSE i

RECURSIVE ParseDigits(_, _, _)
ParseDigits(s, i, n) ==
    IF IsDigit(s, i) THEN ParseDigits(s, i + 1, n * 10 + DigitValue(s[i]))
    ELSE Done(n, i)

\* a number without sign, fraction or exponent; no leading zero
ParseInt(s, i) ==
    IF ~IsDigit(s, i) THEN Fail
    ELSE IF s[i] = "0" /\ IsDigit(s, i + 1) THEN Fail
    ELSE ParseDigits(s, i, 0)

RECURSIVE ParseChars(_, _, _)
ParseChars(s, i, w) ==
    IF i > Len(s) THEN Fail
    ELSE IF s[i] = "\"" THEN Done(w, i + 1)
    ELSE IF s[i] = "ctl" THEN Fail
    ELSE ParseChars(s, i + 1, Append(w, s[i]))

ParseString(s, i) == IF At(s, i, "\"") THEN ParseChars(s, i + 1, <<>>) ELSE Fail

RECURSIVE ParseItems(_, _, _)
ParseItems(s, i, ids) ==
    LET n == ParseInt(s, i) IN
    IF ~n.ok THEN Fail
    ELSE LET j == SkipWs(s, n.pos) IN
         IF At(s, j, ",") THEN ParseItems(s, SkipWs(s, j + 1), Append(ids, n.val))
         ELSE IF At(s, j, "]") THEN Done(Append(ids, n.val), j + 1)
         ELSE Fail

ParseList(s, i) ==
    IF ~At(s, i, "[") THEN Fail
    ELSE LET j == SkipWs(s, i + 1) IN
         IF At(s, j, "]") THEN Done(<<>>, j + 1) ELSE ParseItems(s, j, <<>>)

RECURSIVE ParseMembers(_, _, _)
ParseMembers(s, i, d) ==
    LET k == ParseString(s, i) IN
    IF ~k.ok THEN Fail
    ELSE LET c == SkipWs(s, k.pos) IN
         IF ~At(s, c, ":") THEN Fail
         ELSE LET v == ParseList(s, SkipWs(s, c + 1)) IN
              IF ~v.ok THEN Fail
              ELSE LET j == SkipWs(s, v.pos) IN
                   IF At(s, j, ",")
                   THEN ParseMembers(s, SkipWs(s, j + 1), DictSet(d, k.val, v.val))
                   ELSE IF At(s, j, "}") THEN Done(DictSet(d, k.val, v.val), j + 1)
                   ELSE Fail

ParseObject(s, i) ==
    IF ~At(s, i, "{") THEN Fail
    ELSE LET j == SkipWs(s, i + 1) IN
         IF At(s, j, "}") THEN Done(<<>>, j + 1) ELSE ParseMembers(s, j, <<>>)

\* json.load of a document holding an object of lists of numbers: the dict,
\* or a failure (JSONDecodeError) when the text is no such document
JsonLoads(s) ==
    LET o == ParseObject(s, SkipWs(s, 1)) IN
    IF o.ok /\ SkipWs(s, o.pos) = Len(s) + 1 THEN o ELSE Fail

----------------------------------------------------------------------------
(* Files: text written through open(file, 'w') is encoded to bytes, text read
   through open(file, 'r') is decoded from them *)

Chars == {"{", "}", "[", "]", "\"", ":", ",", " ", "a", "A", "_"} \cup Range(Digits)

Ord(c) ==
    CASE c = "{" -> 123 [] c = "}" -> 125 [] c = "[" -> 91 [] c = "]" -> 93
      [] c = "\"" -> 34 [] c = ":" -> 58 [] c = "," -> 44 [] c = " " -> 32
      [] c = "a" -> 97 [] c = "A" -> 65 [] c = "_" -> 95
      [] OTHER -> 48 + DigitValue(c)

\* the character of each byte; "ctl" stands for a control character
CharOfByte ==
    [b \in 0..255 |->
        IF \E c \in Chars : Ord(c) = b THEN CHOOSE c \in Chars : Ord(c) = b ELSE "ctl"]

Chr(b) == CharOfByte[b]

Encode(text) == [i \in 1..Len(text) |-> Ord(text[i])]

Decode(bytes) == [i \in 1..Len(bytes) |-> Chr(bytes[i])]

\* no file at the path
NoFile == [exists |-> FALSE, data |-> <<>>]

FileOf(bytes) == [exists |-> TRUE, data |-> bytes]

\* the None a call returns when it returns no index
None == [some |-> FALSE, index |-> <<>>]

Some(idx) == [some |-> TRUE, index |-> idx]

\* what a call did: the file it left, the value it returned, whether it raised
Returned(f, v) == [file |-> f, ret |-> v, raised |-> FALSE]

Raised(f) == [file |-> f, ret |-> None, raised |-> TRUE]

----------------------------------------------------------------------------
(* struct.pack, struct.unpack *)

\* pack('I', n): four bytes, least significant first
PackI(n) == <<n % 256, (n \div 256) % 256, (n \div 65536) % 256, (n \div 16777216) % 256>>

\* unpack('I', b) of four bytes
UnpackI(b) == b[1] + 256 * b[2] + 65536 * b[3] + 16777216 * b[4]

\* data[lo:hi]
Slice(data, lo, hi) ==
    SubSeq(data, lo + 1, IF hi < Len(data) THEN hi ELSE Len(data))

----------------------------------------------------------------------------
(* InvertedIndex.dump, InvertedIndex.load of the library module *)

LibDumpCall(idx) == Returned(FileOf(Encode(JsonDumps(idx))), None)

LibLoadCall(f) ==
    LET inverted_index == JsonLoads(Decode(f.data)) IN
    IF inverted_index.ok THEN Returned(f, Some(inverted_index.val)) ELSE Raised(f)

----------------------------------------------------------------------------
(* InvertedIndex.dump, InvertedIndex.load of the CLI module *)

json_dump(idx) == Returned(FileOf(Encode(JsonDumps(idx))), None)

\* the header: each word with the number of its documents
Pairs(idx) == [i \in 1..Len(idx) |-> [key |-> idx[i].key, val |-> IntToStr(Len(idx[i].val))]]

\* the length field and the header are written, then pack('H', ) is called
\* without a value and raises; leaving the with block closes the file with
\* what was written
struct_dump(idx) ==
    LET header == Encode(JsonObject(Pairs(idx)))
        meta == Len(header)
    IN  Raised(FileOf(PackI(meta) \o header))

CliDumpCall(idx, method) == IF method = "json" THEN json_dump(idx) ELSE struct_dump(idx)

load_from_json(f) ==
    LET inverted_index == JsonLoads(Decode(f.data)) IN
    IF inverted_index.ok THEN Returned(f, Some(inverted_index.val)) ELSE Raised(f)

\* both unpack calls accepted whatever the length of their buffer
load_from_binary_unchecked(f) == Returned(f, None)

\* unpack raises unless its buffer has exactly the size of the format; the
\* method ends without a return statement
load_from_binary(f) ==
    IF Len(Slice(f.data, 0, 4)) # 4 THEN Raised(f)
    ELSE LET meta == UnpackI(Slice(f.data, 0, 4)) IN
         IF Len(Slice(f.data, 4, 4 + meta)) # meta THEN Raised(f)
         ELSE Returned(f, None)

\* load calls the loader of the strategy and drops what it returns
CliLoadCall(f, strategy) ==
    LET r == IF strategy = "json" THEN load_from_json(f) ELSE load_from_binary(f) IN
    IF r.raised THEN r ELSE Returned(f, None)

----------------------------------------------------------------------------
(* The program *)

Texts == SeqsUpTo(Alphabet, MaxTextLen)

\* Dict[int, str]: the documents in the order of the mapping, no id twice
Datasets ==
    {d \in SeqsUpTo([key : DocIds, val : Texts], Cardinality(DocIds)) :
        \A i, j \in 1..Len(d) : i # j => d[i].key # d[j].key}

Streams == SeqsUpTo(StreamBytes, MaxStream)

Queries == SeqsUpTo(QueryWords, MaxQuery)

\* a run starts from a document mapping and no file at the path, or from a
\* file an earlier run or another program left at the path
Init ==
    /\ index = <<>>
    /\ loaded = None
    /\ words = <<>>
    /\ result = <<>>
    /\ dumpedBy = "none"
    /\ loadedBy = "none"
    /\ outcome = "none"
    /\ \/ /\ documents \in Datasets
          /\ file = NoFile
          /\ pc = "start"
       \/ /\ documents = <<>>
          /\ file \in {FileOf(s) : s \in Streams}
          /\ pc = "stored"

Build ==
    /\ pc = "start"
    /\ index' = build_inverted_index(documents)
    /\ pc' = "built"
    /\ UNCHANGED <<documents, file, loaded, words, result, dumpedBy, loadedBy, outcome>>

QueryIndex ==
    /\ pc = "built"
    /\ \E ws \in Queries :
          /\ words' = ws
          /\ result' = Query(index, ws)
    /\ pc' = "queried"
    /\ outcome' = "returned"
    /\ UNCHANGED <<documents, index, file, loaded, dumpedBy, loadedBy>>

LibDump ==
    /\ pc = "built"
    /\ LET r == LibDumpCall(index) IN
          /\ file' = r.file
          /\ outcome' = IF r.raised THEN "raised" ELSE "returned"
    /\ dumpedBy' = "lib"
    /\ pc' = "stored"
    /\ UNCHANGED <<documents, index, loaded, words, result, loadedBy>>

CliDump ==
    /\ pc = "built"
    /\ \E method \in {"json", "struct"} :
          LET r == CliDumpCall(index, method) IN
          /\ file' = r.file
          /\ outcome' = IF r.raised THEN "raised" ELSE "returned"
          /\ dumpedBy' = method
    /\ pc' = "stored"
    /\ UNCHANGED <<documents, index, loaded, words, result, loadedBy>>

\* the library loads what it stored, or what it finds at the path
LibLoad ==
    /\ pc = "stored"
    /\ dumpedBy \in {"none", "lib"}
    /\ file.exists
    /\ LET r == LibLoadCall(file) IN
          /\ loaded' = r.ret
          /\ outcome' = IF r.raised THEN "raised" ELSE "returned"
    /\ loadedBy' = "lib"
    /\ pc' = "loaded"
    /\ UNCHANGED <<documents, index, file, words, result, dumpedBy>>

\* the CLI loads what it stored, or what it finds at the path
CliLoad ==
    /\ pc = "stored"
    /\ dumpedBy \in {"none", "json", "struct"}
    /\ file.exists
    /\ \E strategy \in {"json", "struct"} :
          LET r == CliLoadCall(file, strategy) IN
          /\ loaded' = r.ret
          /\ outcome' = IF r.raised THEN "raised" ELSE "returned"
          /\ loadedBy' = strategy
    /\ pc' = "loaded"
    /\ UNCHANGED <<documents, index, file, words, result, dumpedBy>>

Next == Build \/ QueryIndex \/ LibDump \/ CliDump \/ LibLoad \/ CliLoad

Spec == Init /\ [][Next]_vars

----------------------------------------------------------------------------
(* Properties *)

\* the tokens of a text: its non-empty pieces
Tokens(text) == {w \in Range(ReSplit(text)) : w # <<>>}

\* the text holds the term at least once, whatever the case of the letters
ContainsTerm(text, t) == \E w \in Tokens(text) : Lower(w) = Lower(t)

Built == pc \in {"built", "queried"} \/ dumpedBy # "none"

AllPresent == \A i \in 1..Len(words) : HasKey(index, words[i])

\* C1: a query of one or more terms that are all in the index returns exactly
\* the documents that are in the posting list of every term
QueryIsIntersection ==
    (pc = "queried" /\ words # <<>> /\ AllPresent)
        => Range(result) =
             {d \in DocIds : \A i \in 1..Len(words) : d \in Range(Lookup(index, words[i]))}

\* C2: an index dumped by the library as JSON and loaded by the library from
\* that file is returned equal to the original: the same terms and, for each
\* term, the same sequence of documents
JsonRoundTrip ==
    (pc = "loaded" /\ dumpedBy = "lib" /\ loadedBy = "lib")
        => /\ outcome = "returned"
           /\ loaded.some
           /\ DictEq(loaded.index, index)

JsonRoundTripWitness ==
    /\ pc = "loaded" /\ dumpedBy = "lib" /\ loadedBy = "lib"
    /\ Len(index) >= 2
    /\ \E i \in 1..Len(index) : index[i].val = <<25, 12>>
    /\ loaded.some /\ loaded.index = index

\* C3: in the CLI module dump(path, 'struct') and then load(path, 'struct')
\* both complete, and load returns an index equal to the original
StructRoundTrip ==
    /\ (pc = "stored" /\ dumpedBy = "struct") => outcome = "returned"
    /\ (pc = "loaded" /\ dumpedBy = "struct" /\ loadedBy = "struct")
          => /\ outcome = "returned"
             /\ loaded.some
             /\ DictEq(loaded.index, index)

\* C4: the result of a query has no document twice and is in ascending order
QueryResultAscending ==
    pc = "queried" => NoDuplicates(result) /\ StrictlyAscending(result)

\* C4, amended: the result of a query on a built index has no document twice
QueryResultDistinct == pc = "queried" => NoDuplicates(result)

QueryResultDistinctWitness ==
    /\ pc = "queried"
    /\ Len(words) >= 2
    /\ \A i \in 1..Len(index) : index[i].val = <<12, 25>>
    /\ result = <<25, 12>>

\* C5: a query of one term returns exactly the documents whose text holds the
\* term at least once, the letters compared without regard to case
SingleTermCaseInsensitive ==
    (pc = "queried" /\ Len(words) = 1)
        => Range(result) =
             {documents[i].key : i \in {j \in 1..Len(documents) :
                                          ContainsTerm(documents[j].val, words[1])}}

\* C6: a query with a term that is not in the index, at whatever position,
\* returns the empty list
AbsentTermEmpty ==
    (pc = "queried" /\ ~AllPresent) => result = <<>>

AbsentTermEmptyWitness ==
    /\ pc = "queried"
    /\ Len(words) = 3
    /\ HasKey(index, words[1]) /\ words[2] = words[1]
    /\ ~HasKey(index, words[3])
    /\ result = <<>>

\* C7: every posting list of a built index is non-empty and strictly
\* ascending, in whatever order the documents are iterated
PostingsAscending ==
    Built => \A i \in 1..Len(index) :
                index[i].val # <<>> /\ StrictlyAscending(index[i].val)

\* the ids of the documents, in the order of the mapping
DocumentIds == [i \in 1..Len(documents) |-> documents[i].key]

\* the ids of the documents that have the word among their pieces, in the
\* order of the mapping
IdsHolding(word) ==
    LET holding == SelectSeq(documents, LAMBDA d : word \in Range(ReSplit(d.val)))
    IN  [i \in 1..Len(holding) |-> holding[i].key]

\* C7, amended: every posting list of a built index is non-empty, has no
\* document twice and holds the documents of its term in the order in which
\* the mapping was iterated; it is strictly ascending when the mapping is
\* iterated by ascending id
PostingsInIterationOrder ==
    pc = "built" => \A i \in 1..Len(index) :
                /\ index[i].val # <<>>
                /\ NoDuplicates(index[i].val)
                /\ index[i].val = IdsHolding(index[i].key)
                /\ StrictlyAscending(DocumentIds) => StrictlyAscending(index[i].val)

PostingsInIterationOrderWitness ==
    /\ pc = "built"
    /\ Len(documents) = 2
    /\ documents[1] = [key |-> 25, val |-> <<"a", " ", "a">>]
    /\ HasKey(index, <<"a">>)
    /\ Lookup(index, <<"a">>) = <<25, 12>>

\* the bytes of the struct format: the length of the header, the header, and
\* every document id of every term, four bytes each, in the order of the header
RECURSIVE Payload(_)
Payload(idx) ==
    IF idx = <<>> THEN <<>>
    ELSE Concat([i \in 1..Len(Head(idx).val) |-> PackI(Head(idx).val[i])])
         \o Payload(Tail(idx))

CompleteStruct(idx) ==
    LET header == Encode(JsonObject(Pairs(idx)))
    IN  PackI(Len(header)) \o header \o Payload(idx)

\* C8: after dump of the CLI module, returned or raised, the path holds a
\* complete encoding of the index or no file
NoPartialWrite ==
    (pc = "stored" /\ dumpedBy \in {"json", "struct"})
        => \/ ~file.exists
           \/ dumpedBy = "json" /\ file.data = Encode(JsonDumps(index))
           \/ dumpedBy = "struct" /\ file.data = CompleteStruct(index)

\* the stream is shorter than the length field, or the length it declares
\* exceeds the bytes after the field
Truncated(data) ==
    \/ Len(data) < 4
    \/ UnpackI(SubSeq(data, 1, 4)) > Len(data) - 4

\* C9: load_from_binary of a truncated stream ends in an error and yields no
\* index
TruncatedStreamRejected ==
    (pc = "loaded" /\ loadedBy = "struct" /\ Truncated(file.data))
        => outcome = "raised" /\ ~loaded.some

TruncatedStreamRejectedWitness ==
    /\ pc = "loaded" /\ loadedBy = "struct"
    /\ Len(file.data) > 4
    /\ UnpackI(SubSeq(file.data, 1, 4)) > Len(file.data) - 4
    /\ outcome = "raised"

\* C10: a built index never has the empty string as a term
NoEmptyTerm == Built => ~HasKey(index, <<>>)

====
